---- MODULE Spec2Model ----
(***************************************************************************)
(* Model of github.com/dracory/database: the context-embedded queryable    *)
(* wrapper (types.go, funcs.go), the execution helpers (execute.go,        *)
(* query.go, select.go) and dialect resolution (database_type.go).         *)
(***************************************************************************)
EXTENDS Integers, Sequences, FiniteSets, TLC

VARIABLES ctx, last, committed, pending, txState, txPool, connPool, nextId, sent

vars ==
    <<ctx, last, committed, pending, txState, txPool, connPool, nextId, sent>>

dbVars ==
    <<committed, pending, txState, txPool, connPool, nextId, sent>>

(***************************************************************************)
(* Bounds of the model.                                                    *)
(***************************************************************************)
\* Longest chain of context layers (wrappers and derived children).
MaxDepth == 3
\* Number of statements that may succeed in one behaviour.
MaxStmts == 2

(***************************************************************************)
(* Queryable handles: values of the interface type QueryableInterface.     *)
(* Nil is the nil interface; NilDB, NilConn and NilTx are non-nil          *)
(* interface values holding a nil pointer; F1 is a foreign implementation  *)
(* of the interface.                                                       *)
(***************************************************************************)
Nil ==
    "nil"

Pools ==
    {"P1", "P2"}

Conns ==
    {"K1"}

Txs ==
    {"T1", "T2"}

TypedNils ==
    {"NilDB", "NilConn", "NilTx"}

Foreign ==
    {"F1"}

Handles ==
    {Nil} \cup Pools \cup Conns \cup Txs \cup TypedNils \cup Foreign

\* The dynamic type of a handle, as a Go type assertion sees it.
TypeOf(h) ==
    CASE h \in Pools \cup {"NilDB"} -> "*sql.DB"
      [] h \in Conns \cup {"NilConn"} -> "*sql.Conn"
      [] h \in Txs \cup {"NilTx"} -> "*sql.Tx"
      [] h \in Foreign -> "foreign"
      [] OTHER -> "none"

(***************************************************************************)
(* Contexts.  A context value is the chain of its layers from the root:    *)
(* the empty chain is context.Background(), a "queryable" layer is a       *)
(* QueryableContext{Context: parent, queryable: h}, a "derived" layer is a *)
(* child made by context.WithCancel / WithDeadline / WithValue.            *)
(***************************************************************************)
Background ==
    <<>>

DeriveKinds ==
    {"WithCancel", "WithDeadline", "WithValue"}

QLayer(h) ==
    [kind |-> "queryable", queryable |-> h, how |-> "-"]

DLayer(how) ==
    [kind |-> "derived", queryable |-> Nil, how |-> how]

\* context.WithCancel(parent) and its siblings: a child of another type.
Derive(parent, how) ==
    Append(parent, DLayer(how))

\* types.go: ctx.(QueryableContext), the dynamic type of the context value.
\* Variant: a context wrapped with the nil handle does not count.
IsQueryableContext_NonNil(c) ==
    /\ Len(c) > 0
    /\ c[Len(c)].kind = "queryable"
    /\ c[Len(c)].queryable # Nil

IsQueryableContext(c) ==
    /\ Len(c) > 0
    /\ c[Len(c)].kind = "queryable"

\* The embedded parent of a QueryableContext value.
Parent(c) ==
    SubSeq(c, 1, Len(c) - 1)

Queryable(c) ==
    c[Len(c)].queryable

\* Variant: returns an existing QueryableContext instead of wrapping.
NewQueryableContext_KeepsExisting(c, queryable) ==
    IF IsQueryableContext(c)
    THEN c
    ELSE Append(c, QLayer(queryable))

\* Variant: a parent that is a QueryableContext gets the new handle in
\* place of its own.
NewQueryableContext_ReplacesHandle(c, queryable) ==
    IF IsQueryableContext(c)
    THEN Append(Parent(c), QLayer(queryable))
    ELSE Append(c, QLayer(queryable))

NewQueryableContext(c, queryable) ==
    Append(c, QLayer(queryable))

\* Variant: wraps even when the argument is already a QueryableContext.
NewQueryableContextOr_AlwaysWraps(c, queryable) ==
    Append(c, QLayer(queryable))

\* Variant: creates the new context without the handle.
NewQueryableContextOr_DropsHandle(c, queryable) ==
    IF IsQueryableContext(c)
    THEN c
    ELSE Append(c, QLayer(Nil))

\* Variant: keeps the existing context only when it is bound to the handle
\* passed.
NewQueryableContextOr_Rebinds(c, queryable) ==
    IF IsQueryableContext(c) /\ Queryable(c) = queryable
    THEN c
    ELSE Append(c, QLayer(queryable))

\* Variant: a QueryableContext holding the nil handle is wrapped anew.
NewQueryableContextOr_FillsNil(c, queryable) ==
    IF IsQueryableContext(c) /\ Queryable(c) # Nil
    THEN c
    ELSE Append(c, QLayer(queryable))

NewQueryableContextOr(c, queryable) ==
    IF IsQueryableContext(c)
    THEN c
    ELSE Append(c, QLayer(queryable))

\* Variant: the nil handle is not wrapped.
Context_SkipsNil(c, queryable) ==
    IF queryable = Nil
    THEN c
    ELSE NewQueryableContext(c, queryable)

\* Variant: the alias goes through NewQueryableContextOr.
Context_ViaOr(c, queryable) ==
    NewQueryableContextOr(c, queryable)

Context(c, queryable) ==
    NewQueryableContext(c, queryable)

\* Variant: the alias overwrites an existing binding.
ContextOr_Overwrites(c, queryable) ==
    NewQueryableContext(c, queryable)

ContextOr(c, queryable) ==
    NewQueryableContextOr(c, queryable)

IsTx(c) ==
    IF Queryable(c) = Nil
    THEN FALSE
    ELSE TypeOf(Queryable(c)) = "*sql.Tx"

IsConn(c) ==
    IF Queryable(c) = Nil
    THEN FALSE
    ELSE TypeOf(Queryable(c)) = "*sql.Conn"

\* Variant: any non-nil handle counts as a pool.
IsDB_AnyNonNil(c) ==
    Queryable(c) # Nil

IsDB(c) ==
    IF Queryable(c) = Nil
    THEN FALSE
    ELSE IF IsTx(c)
    THEN FALSE
    ELSE IF IsConn(c)
    THEN FALSE
    ELSE TypeOf(Queryable(c)) = "*sql.DB"

(***************************************************************************)
(* The database behind the handles.  Every successful statement inserts a  *)
(* row with a fresh id.  committed[p] is what a query on pool p sees;      *)
(* pending[t] is what transaction t has written and not yet committed.     *)
(***************************************************************************)
NoErr ==
    "nil"

ErrNilQuerier ==
    "querier (db/tx/conn) is nil"

ErrTxDone ==
    "sql: transaction has already been committed or rolled back"

ErrColumns ==
    "rows.Columns failed"

ErrScan ==
    "rows.Scan failed"

ErrIter ==
    "rows.Err after Next"

Panic ==
    "panic: nil pointer dereference"

\* What the database may answer to a statement: success, or an error of its
\* own (bad SQL, connectivity loss).
Faults ==
    {NoErr, "bad SQL", "connection lost"}

\* What may go wrong on an open cursor.
CursorFaults ==
    {"none", "columns", "scan", "iter"}

\* The rows a statement on handle h sees.
Visible(h) ==
    CASE h \in Pools -> committed[h]
      [] h \in Conns -> committed[connPool[h]]
      [] h \in Txs /\ txState[h] = "open" ->
            committed[txPool[h]] \cup pending[h]
      [] OTHER -> {}

\* Handles that exist in the current state; one nil pointer stands for the
\* three pointer types, which the execution primitives treat alike.
LiveHandles ==
    {Nil, "NilTx"} \cup Pools \cup Foreign
        \cup {k \in Conns : connPool[k] # "none"}
        \cup {t \in Txs : txState[t] # "none"}

\* The state of the database as an execution primitive leaves it.
DbState(com, pen, nid, txs) ==
    [committed |-> com, pending |-> pen, nextId |-> nid, txState |-> txs]

DbNow ==
    DbState(committed, pending, nextId, txState)

\* context.Canceled and context.DeadlineExceeded
ErrCanceled ==
    "context canceled"

ErrDeadlineExceeded ==
    "context deadline exceeded"

\* Children whose cancel function was called, or whose deadline has passed.
DoneKinds ==
    {"Canceled", "Expired"}

\* Context.Err: a QueryableContext has no Err of its own, the embedded
\* parent answers; a child is done when its parent is, with the same error.
RECURSIVE Err(_)
Err(c) ==
    IF Len(c) = 0
    THEN NoErr
    ELSE IF Err(Parent(c)) # NoErr
    THEN Err(Parent(c))
    ELSE IF c[Len(c)].kind = "queryable"
    THEN NoErr
    ELSE CASE c[Len(c)].how = "Canceled" -> ErrCanceled
           [] c[Len(c)].how = "Expired" -> ErrDeadlineExceeded
           [] OTHER -> NoErr

\* Context.Deadline: "none", "future" or "past"; the earliest one set on the
\* way from the root.
RECURSIVE Deadline(_)
Deadline(c) ==
    IF Len(c) = 0
    THEN "none"
    ELSE IF Deadline(Parent(c)) = "past"
    THEN "past"
    ELSE IF c[Len(c)].kind = "queryable"
    THEN Deadline(Parent(c))
    ELSE CASE c[Len(c)].how = "Expired" -> "past"
           [] c[Len(c)].how = "WithDeadline" -> "future"
           [] OTHER -> Deadline(Parent(c))

\* Context.Value for the key children are derived with by WithValue.
RECURSIVE Value(_)
Value(c) ==
    IF Len(c) = 0
    THEN "nil"
    ELSE IF c[Len(c)].kind = "derived" /\ c[Len(c)].how = "WithValue"
    THEN "v"
    ELSE Value(Parent(c))

\* QueryableInterface.ExecContext of database/sql, on handle h.
ExecContext(h, c, fault) ==
    CASE h \in TypedNils \cup {Nil} ->
            [err |-> Panic, res |-> "nil", db |-> DbNow]
      [] h \in Foreign ->
            [err |-> fault, res |-> IF fault = NoErr THEN "Result" ELSE "nil",
             db |-> DbNow]
      [] Err(c) # NoErr ->
            [err |-> Err(c), res |-> "nil", db |-> DbNow]
      [] h \in Txs /\ txState[h] # "open" ->
            [err |-> ErrTxDone, res |-> "nil", db |-> DbNow]
      [] h \in Pools \cup Conns \cup Txs /\ fault # NoErr ->
            [err |-> fault, res |-> "nil", db |-> DbNow]
      [] h \in Txs ->
            [err |-> NoErr, res |-> "Result",
             db |-> DbState(committed,
                            [pending EXCEPT ![h] = @ \cup {nextId}],
                            nextId + 1, txState)]
      [] h \in Pools ->
            [err |-> NoErr, res |-> "Result",
             db |-> DbState([committed EXCEPT ![h] = @ \cup {nextId}],
                            pending, nextId + 1, txState)]
      [] OTHER ->
            [err |-> NoErr, res |-> "Result",
             db |-> DbState([committed EXCEPT ![connPool[h]] = @ \cup {nextId}],
                            pending, nextId + 1, txState)]

\* The ids of a set in ascending order: the order a cursor yields them.
RECURSIVE Ascending(_)
Ascending(S) ==
    IF S = {}
    THEN <<>>
    ELSE LET m == CHOOSE x \in S : \A y \in S : x <= y
         IN <<m>> \o Ascending(S \ {m})

\* QueryableInterface.QueryContext of database/sql, on handle h: an error or
\* an open cursor over the rows h sees.
QueryContext(h, c, fault) ==
    CASE h \in TypedNils \cup {Nil} ->
            [err |-> Panic, rows |-> <<>>, open |-> FALSE]
      [] h \in Foreign ->
            [err |-> fault, rows |-> <<>>, open |-> fault = NoErr]
      [] Err(c) # NoErr ->
            [err |-> Err(c), rows |-> <<>>, open |-> FALSE]
      [] h \in Txs /\ txState[h] # "open" ->
            [err |-> ErrTxDone, rows |-> <<>>, open |-> FALSE]
      [] fault # NoErr ->
            [err |-> fault, rows |-> <<>>, open |-> FALSE]
      [] OTHER ->
            [err |-> NoErr, rows |-> Ascending(Visible(h)), open |-> TRUE]

\* One invocation of an execution primitive, as the handle sees it.
Prim(fn, h, err) ==
    [fn |-> fn, h |-> h, err |-> err]

\* Variant: no check for a nil querier.
Execute_NoNilCheck(c, fault) ==
    LET c2 == NewQueryableContextOr(c, Queryable(c))
        o == ExecContext(Queryable(c2), c2, fault)
    IN [err |-> o.err, res |-> o.res, db |-> o.db,
        prim |-> <<Prim("ExecContext", Queryable(c2), o.err)>>]

\* Variant: the primitive's error is replaced by an error of the helper.
Execute_WrapsError(c, fault) ==
    IF Queryable(c) = Nil
    THEN [err |-> ErrNilQuerier, res |-> "nil", db |-> DbNow, prim |-> <<>>]
    ELSE LET c2 == NewQueryableContextOr(c, Queryable(c))
             o == ExecContext(Queryable(c2), c2, fault)
         IN [err |-> IF o.err = NoErr THEN NoErr ELSE "execute failed",
             res |-> o.res, db |-> o.db,
             prim |-> <<Prim("ExecContext", Queryable(c2), o.err)>>]

\* Variant: a statement addressed to a transaction runs on the
\* transaction's pool.
Execute_OnParentPool(c, fault) ==
    IF Queryable(c) = Nil
    THEN [err |-> ErrNilQuerier, res |-> "nil", db |-> DbNow, prim |-> <<>>]
    ELSE LET q == Queryable(c)
             h == IF q \in Txs THEN txPool[q] ELSE q
             o == ExecContext(h, c, fault)
         IN [err |-> o.err, res |-> o.res, db |-> o.db,
             prim |-> <<Prim("ExecContext", h, o.err)>>]

\* Variant: a failed statement on a transaction rolls the transaction
\* back.
Execute_RollsBackOnError(c, fault) ==
    IF Queryable(c) = Nil
    THEN [err |-> ErrNilQuerier, res |-> "nil", db |-> DbNow, prim |-> <<>>]
    ELSE LET c2 == NewQueryableContextOr(c, Queryable(c))
             q == Queryable(c2)
             o == ExecContext(q, c2, fault)
         IN [err |-> o.err, res |-> o.res,
             db |-> IF o.err # NoErr /\ q \in Txs /\ txState[q] = "open"
                    THEN DbState(committed, [pending EXCEPT ![q] = {}],
                                 nextId, [txState EXCEPT ![q] = "rolledback"])
                    ELSE o.db,
             prim |-> <<Prim("ExecContext", q, o.err)>>]

\* Variant: the helper looks at the context itself and does not call the
\* primitive when the context is done.
Execute_ChecksDeadline(c, fault) ==
    IF Queryable(c) = Nil
    THEN [err |-> ErrNilQuerier, res |-> "nil", db |-> DbNow, prim |-> <<>>]
    ELSE IF Err(c) # NoErr
    THEN [err |-> Err(c), res |-> "nil", db |-> DbNow, prim |-> <<>>]
    ELSE LET c2 == NewQueryableContextOr(c, Queryable(c))
             o == ExecContext(Queryable(c2), c2, fault)
         IN [err |-> o.err, res |-> o.res, db |-> o.db,
             prim |-> <<Prim("ExecContext", Queryable(c2), o.err)>>]

\* Variant: a failed call of the primitive is tried once more.
Execute_RetriesOnError(c, fault) ==
    IF Queryable(c) = Nil
    THEN [err |-> ErrNilQuerier, res |-> "nil", db |-> DbNow, prim |-> <<>>]
    ELSE LET c2 == NewQueryableContextOr(c, Queryable(c))
             o == ExecContext(Queryable(c2), c2, fault)
             p == Prim("ExecContext", Queryable(c2), o.err)
         IN [err |-> o.err, res |-> o.res, db |-> o.db,
             prim |-> IF o.err = NoErr THEN <<p>> ELSE <<p, p>>]

\* Variant: a statement addressed to a finished transaction runs on the
\* transaction's pool.
Execute_FallsBackToPool(c, fault) ==
    IF Queryable(c) = Nil
    THEN [err |-> ErrNilQuerier, res |-> "nil", db |-> DbNow, prim |-> <<>>]
    ELSE LET q == Queryable(c)
             h == IF q \in Txs /\ txState[q] \in {"committed", "rolledback"}
                  THEN txPool[q]
                  ELSE q
             o == ExecContext(h, c, fault)
         IN [err |-> o.err, res |-> o.res, db |-> o.db,
             prim |-> <<Prim("ExecContext", h, o.err)>>]

Execute(c, fault) ==
    IF Queryable(c) = Nil
    THEN [err |-> ErrNilQuerier, res |-> "nil", db |-> DbNow, prim |-> <<>>]
    ELSE LET c2 == NewQueryableContextOr(c, Queryable(c))
             o == ExecContext(Queryable(c2), c2, fault)
         IN [err |-> o.err, res |-> o.res, db |-> o.db,
             prim |-> <<Prim("ExecContext", Queryable(c2), o.err)>>]

Query(c, fault) ==
    IF Queryable(c) = Nil
    THEN [err |-> ErrNilQuerier, rows |-> <<>>, open |-> FALSE, prim |-> <<>>]
    ELSE LET c2 == NewQueryableContextOr(c, Queryable(c))
             o == QueryContext(Queryable(c2), c2, fault)
         IN [err |-> o.err, rows |-> o.rows, open |-> o.open,
             prim |-> <<Prim("QueryContext", Queryable(c2), o.err)>>]

\* The column values of the row with a given id; "NULL" is SQL NULL.
RowMap(id) ==
    [id |-> id, name |-> IF id % 2 = 0 THEN "NULL" ELSE "v"]

\* The for rows.Next() loop of SelectToMapAny from row i on: the list built
\* and the Scan error that ended the loop, if one did.
\* Variant: each row is put in front of the rows read before it.
RECURSIVE ScanLoop_Prepends(_, _, _, _)
ScanLoop_Prepends(rows, i, listMap, cf) ==
    IF i > Len(rows) \/ (cf = "iter" /\ i > 1)
    THEN [listMap |-> listMap, err |-> NoErr]
    ELSE IF cf = "scan" /\ i = Len(rows)
    THEN [listMap |-> listMap, err |-> ErrScan]
    ELSE ScanLoop_Prepends(rows, i + 1, <<RowMap(rows[i])>> \o listMap, cf)

RECURSIVE ScanLoop(_, _, _, _)
ScanLoop(rows, i, listMap, cf) ==
    IF i > Len(rows) \/ (cf = "iter" /\ i > 1)
    THEN [listMap |-> listMap, err |-> NoErr]
    ELSE IF cf = "scan" /\ i = Len(rows)
    THEN [listMap |-> listMap, err |-> ErrScan]
    ELSE ScanLoop(rows, i + 1, Append(listMap, RowMap(rows[i])), cf)

\* Variant: the list starts as the nil slice, so a query without rows
\* returns nil.
SelectToMapAny_NilWhenEmpty(c, fault, cf) ==
    IF Queryable(c) = Nil
    THEN [list |-> <<>>, nilSlice |-> FALSE, err |-> ErrNilQuerier,
          prim |-> <<>>, open |-> FALSE]
    ELSE LET q == QueryContext(Queryable(c), c, fault)
             p == <<Prim("QueryContext", Queryable(c), q.err)>>
             loop == ScanLoop(q.rows, 1, <<>>, cf)
         IN IF q.err # NoErr
            THEN [list |-> <<>>, nilSlice |-> FALSE, err |-> q.err,
                  prim |-> p, open |-> q.open]
            ELSE IF cf = "columns"
            THEN [list |-> <<>>, nilSlice |-> FALSE, err |-> ErrColumns,
                  prim |-> p, open |-> FALSE]
            ELSE IF loop.err # NoErr
            THEN [list |-> <<>>, nilSlice |-> FALSE, err |-> loop.err,
                  prim |-> p, open |-> FALSE]
            ELSE IF cf = "iter"
            THEN [list |-> <<>>, nilSlice |-> FALSE, err |-> ErrIter,
                  prim |-> p, open |-> FALSE]
            ELSE [list |-> loop.listMap, nilSlice |-> q.rows = <<>>, err |-> NoErr,
                  prim |-> p, open |-> FALSE]

\* Variant: the cursor is closed at the normal end only, not deferred.
SelectToMapAny_NoDefer(c, fault, cf) ==
    IF Queryable(c) = Nil
    THEN [list |-> <<>>, nilSlice |-> FALSE, err |-> ErrNilQuerier,
          prim |-> <<>>, open |-> FALSE]
    ELSE LET q == QueryContext(Queryable(c), c, fault)
             p == <<Prim("QueryContext", Queryable(c), q.err)>>
             loop == ScanLoop(q.rows, 1, <<>>, cf)
         IN IF q.err # NoErr
            THEN [list |-> <<>>, nilSlice |-> FALSE, err |-> q.err,
                  prim |-> p, open |-> q.open]
            ELSE IF cf = "columns"
            THEN [list |-> <<>>, nilSlice |-> FALSE, err |-> ErrColumns,
                  prim |-> p, open |-> TRUE]
            ELSE IF loop.err # NoErr
            THEN [list |-> <<>>, nilSlice |-> FALSE, err |-> loop.err,
                  prim |-> p, open |-> TRUE]
            ELSE IF cf = "iter"
            THEN [list |-> <<>>, nilSlice |-> FALSE, err |-> ErrIter,
                  prim |-> p, open |-> TRUE]
            ELSE [list |-> loop.listMap, nilSlice |-> FALSE, err |-> NoErr,
                  prim |-> p, open |-> FALSE]

\* Variant: a scan error returns the rows read so far.
SelectToMapAny_PartialOnScanError(c, fault, cf) ==
    IF Queryable(c) = Nil
    THEN [list |-> <<>>, nilSlice |-> FALSE, err |-> ErrNilQuerier,
          prim |-> <<>>, open |-> FALSE]
    ELSE LET q == QueryContext(Queryable(c), c, fault)
             p == <<Prim("QueryContext", Queryable(c), q.err)>>
             loop == ScanLoop(q.rows, 1, <<>>, cf)
         IN IF q.err # NoErr
            THEN [list |-> <<>>, nilSlice |-> FALSE, err |-> q.err,
                  prim |-> p, open |-> q.open]
            ELSE IF cf = "columns"
            THEN [list |-> <<>>, nilSlice |-> FALSE, err |-> ErrColumns,
                  prim |-> p, open |-> FALSE]
            ELSE IF loop.err # NoErr
            THEN [list |-> loop.listMap, nilSlice |-> FALSE, err |-> loop.err,
                  prim |-> p, open |-> FALSE]
            ELSE IF cf = "iter"
            THEN [list |-> <<>>, nilSlice |-> FALSE, err |-> ErrIter,
                  prim |-> p, open |-> FALSE]
            ELSE [list |-> loop.listMap, nilSlice |-> FALSE, err |-> NoErr,
                  prim |-> p, open |-> FALSE]

SelectToMapAny(c, fault, cf) ==
    IF Queryable(c) = Nil
    THEN [list |-> <<>>, nilSlice |-> FALSE, err |-> ErrNilQuerier,
          prim |-> <<>>, open |-> FALSE]
    ELSE LET q == QueryContext(Queryable(c), c, fault)
             p == <<Prim("QueryContext", Queryable(c), q.err)>>
             loop == ScanLoop(q.rows, 1, <<>>, cf)
         IN IF q.err # NoErr
            THEN [list |-> <<>>, nilSlice |-> FALSE, err |-> q.err,
                  prim |-> p, open |-> q.open]
            ELSE IF cf = "columns"
            THEN [list |-> <<>>, nilSlice |-> FALSE, err |-> ErrColumns,
                  prim |-> p, open |-> FALSE]
            ELSE IF loop.err # NoErr
            THEN [list |-> <<>>, nilSlice |-> FALSE, err |-> loop.err,
                  prim |-> p, open |-> FALSE]
            ELSE IF cf = "iter"
            THEN [list |-> <<>>, nilSlice |-> FALSE, err |-> ErrIter,
                  prim |-> p, open |-> FALSE]
            ELSE [list |-> loop.listMap, nilSlice |-> FALSE, err |-> NoErr,
                  prim |-> p, open |-> FALSE]

\* The decimal digits of a small id.
Digits ==
    <<"1", "2", "3", "4", "5", "6", "7", "8", "9">>

\* maputils.MapStringAnyToMapStringString: every value as a string.
MapStringAnyToMapStringString(m) ==
    [id |-> Digits[m.id], name |-> IF m.name = "NULL" THEN "" ELSE m.name]

SelectToMapString(c, fault, cf) ==
    IF Queryable(c) = Nil
    THEN [list |-> <<>>, nilSlice |-> FALSE, err |-> ErrNilQuerier,
          prim |-> <<>>, open |-> FALSE]
    ELSE LET a == SelectToMapAny(c, fault, cf)
         IN IF a.err # NoErr
            THEN [list |-> <<>>, nilSlice |-> FALSE, err |-> a.err,
                  prim |-> a.prim, open |-> a.open]
            ELSE [list |-> [i \in 1..Len(a.list) |->
                               MapStringAnyToMapStringString(a.list[i])],
                  nilSlice |-> FALSE, err |-> NoErr, prim |-> a.prim,
                  open |-> a.open]

\* A data-access function of a store: join the caller's transaction if the
\* context carries one, else use the store's own pool.
StoreMethod(c, db, fault) ==
    LET qCtx == ContextOr(c, db)
    IN Execute(qCtx, fault)

(***************************************************************************)
(* Dialect resolution.                                                     *)
(***************************************************************************)
DATABASE_TYPE_SQLITE ==
    "sqlite"

DATABASE_TYPE_MYSQL ==
    "mysql"

DATABASE_TYPE_POSTGRES ==
    "postgres"

DATABASE_TYPE_UNKNOWN ==
    "unknown"

\* The dialect each pool was opened against.
OpenedAgainst(p) ==
    IF p = "P1" THEN DATABASE_TYPE_SQLITE ELSE DATABASE_TYPE_MYSQL

\* The identifier of the driver registered for a dialect, letter by letter.
DriverName(dialect) ==
    CASE dialect = DATABASE_TYPE_SQLITE ->
            <<"*", "s", "q", "l", "i", "t", "e", ".", "D", "r", "i", "v", "e", "r">>
      [] dialect = DATABASE_TYPE_MYSQL ->
            <<"*", "m", "y", "s", "q", "l", ".", "M", "y", "S", "Q", "L",
              "D", "r", "i", "v", "e", "r">>
      [] OTHER ->
            <<"*", "f", "o", "o", ".", "D", "r", "i", "v", "e", "r">>

UpperCase ==
    <<"D", "E", "G", "I", "L", "M", "O", "P", "Q", "R", "S", "T", "Y">>

LowerCase ==
    <<"d", "e", "g", "i", "l", "m", "o", "p", "q", "r", "s", "t", "y">>

ToLower(ch) ==
    IF \E i \in 1..Len(UpperCase) : UpperCase[i] = ch
    THEN LowerCase[CHOOSE i \in 1..Len(UpperCase) : UpperCase[i] = ch]
    ELSE ch

Lower(s) ==
    [i \in 1..Len(s) |-> ToLower(s[i])]

Contains(s, sub) ==
    \E i \in 0..(Len(s) - Len(sub)) :
        \A j \in 1..Len(sub) : s[i + j] = sub[j]

\* Variant: the identifier is matched as written, without folding case.
DialectOf_CaseSensitive(name) ==
    IF Contains(name, <<"p", "o", "s", "t", "g", "r", "e", "s">>)
    THEN DATABASE_TYPE_POSTGRES
    ELSE IF Contains(name, <<"s", "q", "l", "i", "t", "e">>)
    THEN DATABASE_TYPE_SQLITE
    ELSE IF Contains(name, <<"m", "y", "s", "q", "l">>)
    THEN DATABASE_TYPE_MYSQL
    ELSE DATABASE_TYPE_UNKNOWN

\* The dialect a driver identifier maps to.
DialectOf(name) ==
    LET n == Lower(name)
    IN IF Contains(n, <<"p", "o", "s", "t", "g", "r", "e", "s">>)
       THEN DATABASE_TYPE_POSTGRES
       ELSE IF Contains(n, <<"s", "q", "l", "i", "t", "e">>)
       THEN DATABASE_TYPE_SQLITE
       ELSE IF Contains(n, <<"m", "y", "s", "q", "l">>)
       THEN DATABASE_TYPE_MYSQL
       ELSE DATABASE_TYPE_UNKNOWN

\* The parent pool a transaction or connection refers to in its private
\* field; "none" when the reference is nil or the handle is of another
\* type, "fault" when the access itself faults (a nil pointer).
ParentPool(h) ==
    CASE h \in Txs -> txPool[h]
      [] h \in Conns -> connPool[h]
      [] h \in TypedNils -> "fault"
      [] OTHER -> "none"

\* Variant: a fault of the private-field access reaches the caller.
DatabaseType_NoRecover(q) ==
    IF q \in Pools
    THEN DialectOf(DriverName(OpenedAgainst(q)))
    ELSE IF ParentPool(q) \in Pools
    THEN DialectOf(DriverName(OpenedAgainst(ParentPool(q))))
    ELSE IF ParentPool(q) = "fault"
    THEN Panic
    ELSE DATABASE_TYPE_UNKNOWN

\* Variant: only a bare pool is resolved.
DatabaseType_PoolOnly(q) ==
    IF q \in Pools
    THEN DialectOf(DriverName(OpenedAgainst(q)))
    ELSE DATABASE_TYPE_UNKNOWN

DatabaseType(q) ==
    IF q \in Pools
    THEN DialectOf(DriverName(OpenedAgainst(q)))
    ELSE IF ParentPool(q) \in Pools
    THEN DialectOf(DriverName(OpenedAgainst(ParentPool(q))))
    ELSE DATABASE_TYPE_UNKNOWN

(***************************************************************************)
(* The record of the last call.                                            *)
(***************************************************************************)
NoCall ==
    [op |-> "none", arg |-> Background, h |-> Nil, out |-> <<>>]

CtxCall(op, c, h) ==
    [op |-> op, arg |-> c, h |-> h, out |-> <<>>]

(***************************************************************************)
(* Initial state: a background context, no transaction begun, the          *)
(* connection checked out of the second pool, empty databases.             *)
(***************************************************************************)
Init ==
    /\ ctx = Background
    /\ last = NoCall
    /\ committed = [p \in Pools |-> {}]
    /\ pending = [t \in Txs |-> {}]
    /\ txState = [t \in Txs |-> "none"]
    /\ txPool = [t \in Txs |-> "none"]
    /\ connPool = [k \in Conns |-> "P2"]
    /\ nextId = 1
    /\ sent = [t \in Txs |-> {}]

(***************************************************************************)
(* A call chain: each layer of the application takes the context it was    *)
(* given and hands a context to the next layer.                            *)
(***************************************************************************)
CallNewQueryableContext(h) ==
    /\ Len(ctx) < MaxDepth
    /\ ctx' = NewQueryableContext(ctx, h)
    /\ last' = CtxCall("NewQueryableContext", ctx, h)
    /\ UNCHANGED dbVars

CallContext(h) ==
    /\ Len(ctx) < MaxDepth
    /\ ctx' = Context(ctx, h)
    /\ last' = CtxCall("Context", ctx, h)
    /\ UNCHANGED dbVars

CallNewQueryableContextOr(h) ==
    /\ Len(ctx) < MaxDepth
    /\ ctx' = NewQueryableContextOr(ctx, h)
    /\ last' = CtxCall("NewQueryableContextOr", ctx, h)
    /\ UNCHANGED dbVars

CallContextOr(h) ==
    /\ Len(ctx) < MaxDepth
    /\ ctx' = ContextOr(ctx, h)
    /\ last' = CtxCall("ContextOr", ctx, h)
    /\ UNCHANGED dbVars

CallDerive(how) ==
    /\ Len(ctx) < MaxDepth
    /\ ctx' = Derive(ctx, how)
    /\ last' = CtxCall(how, ctx, Nil)
    /\ UNCHANGED dbVars

\* A layer asks which variant of handle the context it was given carries.
CallClassify ==
    /\ IsQueryableContext(ctx)
    /\ last' = [op |-> "Classify", arg |-> ctx, h |-> Queryable(ctx),
                out |-> <<IsDB(ctx), IsConn(ctx), IsTx(ctx)>>]
    /\ UNCHANGED <<ctx, dbVars>>

NextCtx ==
    \/ \E h \in Handles : CallNewQueryableContext(h)
    \/ \E h \in Handles : CallContext(h)
    \/ \E h \in Handles : CallNewQueryableContextOr(h)
    \/ \E h \in Handles : CallContextOr(h)
    \/ \E how \in DeriveKinds : CallDerive(how)
    \/ CallClassify

SpecCtx ==
    Init /\ [][NextCtx]_vars

(***************************************************************************)
(* Callers working on the databases: they acquire and release handles,     *)
(* and call the helpers one call at a time.                                *)
(***************************************************************************)
Idle ==
    last.op = "none"

\* The contexts a caller hands to Execute, Query and the select helpers.
ExecCtxs ==
    {Context(Background, h) : h \in LiveHandles}

\* Contexts bound to a pool, connection or transaction whose parent is
\* already cancelled or past its deadline.
DoneCtxs ==
    {Context(Derive(Background, k), h) :
        k \in DoneKinds, h \in LiveHandles \cap (Pools \cup Conns \cup Txs)}

\* The contexts a caller hands to a store method.
CallerCtxs ==
    {Background, Derive(Background, "WithValue")} \cup ExecCtxs
        \cup {Derive(Background, k) : k \in DoneKinds}
        \cup {Derive(Context(Background, t), "WithDeadline") :
                 t \in LiveHandles \cap Txs}

\* What may go wrong in a select: the query fails, or the cursor does.
SelectFaults ==
    {<<f, "none">> : f \in Faults} \cup {<<NoErr, cf>> : cf \in CursorFaults}

\* db.BeginTx
BeginTx(t, p) ==
    /\ Idle
    /\ txState[t] = "none"
    /\ txState' = [txState EXCEPT ![t] = "open"]
    /\ txPool' = [txPool EXCEPT ![t] = p]
    /\ UNCHANGED <<ctx, last, committed, pending, connPool, nextId, sent>>

\* tx.Commit
Commit(t) ==
    /\ Idle
    /\ txState[t] = "open"
    /\ txState' = [txState EXCEPT ![t] = "committed"]
    /\ committed' = [committed EXCEPT ![txPool[t]] = @ \cup pending[t]]
    /\ pending' = [pending EXCEPT ![t] = {}]
    /\ UNCHANGED <<ctx, last, txPool, connPool, nextId, sent>>

\* tx.Rollback
Rollback(t) ==
    /\ Idle
    /\ txState[t] = "open"
    /\ txState' = [txState EXCEPT ![t] = "rolledback"]
    /\ pending' = [pending EXCEPT ![t] = {}]
    /\ UNCHANGED <<ctx, last, committed, txPool, connPool, nextId, sent>>

\* The statements sent with Execute on a context bound to transaction t that
\* succeeded: the caller's record, kept beside the database.
Sent(c, o) ==
    IF Queryable(c) \in Txs /\ o.err = NoErr
    THEN [sent EXCEPT ![Queryable(c)] = @ \cup {nextId}]
    ELSE sent

ApplyDb(o) ==
    /\ o.db.nextId <= MaxStmts + 1
    /\ committed' = o.db.committed
    /\ pending' = o.db.pending
    /\ nextId' = o.db.nextId
    /\ txState' = o.db.txState

CallExecute(c, fault) ==
    /\ Idle
    /\ LET o == Execute(c, fault)
       IN /\ ApplyDb(o)
          /\ sent' = Sent(c, o)
          /\ last' = [op |-> "Execute", arg |-> c, h |-> Nil, out |-> o]
    /\ UNCHANGED <<ctx, txPool, connPool>>

CallStoreMethod(c, db, fault) ==
    /\ Idle
    /\ LET o == StoreMethod(c, db, fault)
       IN /\ ApplyDb(o)
          /\ sent' = Sent(ContextOr(c, db), o)
          /\ last' = [op |-> "StoreMethod", arg |-> c, h |-> db, out |-> o]
    /\ UNCHANGED <<ctx, txPool, connPool>>

CallQuery(c, fault) ==
    /\ Idle
    /\ last' = [op |-> "Query", arg |-> c, h |-> Nil, out |-> Query(c, fault)]
    /\ UNCHANGED <<ctx, dbVars>>

CallSelectToMapAny(c, fault, cf) ==
    /\ Idle
    /\ last' = [op |-> "SelectToMapAny", arg |-> c, h |-> Nil,
                out |-> SelectToMapAny(c, fault, cf), cf |-> cf]
    /\ UNCHANGED <<ctx, dbVars>>

CallSelectToMapString(c, fault, cf) ==
    /\ Idle
    /\ last' = [op |-> "SelectToMapString", arg |-> c, h |-> Nil,
                out |-> SelectToMapString(c, fault, cf), cf |-> cf]
    /\ UNCHANGED <<ctx, dbVars>>

CallDatabaseType(q) ==
    /\ Idle
    /\ last' = [op |-> "DatabaseType", arg |-> Background, h |-> q,
                out |-> DatabaseType(q)]
    /\ UNCHANGED <<ctx, dbVars>>

\* Driver identifiers a pool may be registered under.
DriverIdentifiers ==
    {DriverName(DATABASE_TYPE_SQLITE), DriverName(DATABASE_TYPE_MYSQL),
     DriverName("other"),
     <<"S", "Q", "L", "i", "t", "e", "3">>,
     <<"M", "Y", "S", "Q", "L">>,
     <<"p", "g", "x", "-", "P", "o", "s", "t", "g", "r", "e", "s", "q", "l">>,
     <<"m", "s", "s", "q", "l">>}

\* Dialect resolution of a pool registered under a given driver identifier.
CallDialectOf(name) ==
    /\ Idle
    /\ last' = [op |-> "DialectOf", arg |-> name, h |-> Nil,
                out |-> DialectOf(name)]
    /\ UNCHANGED <<ctx, dbVars>>

\* The caller has looked at the result and goes on.
Return ==
    /\ ~Idle
    /\ last' = NoCall
    /\ UNCHANGED <<ctx, dbVars>>

Next ==
    \/ \E t \in Txs, p \in Pools : BeginTx(t, p)
    \/ \E t \in Txs : Commit(t)
    \/ \E t \in Txs : Rollback(t)
    \/ \E c \in ExecCtxs \cup DoneCtxs, f \in Faults : CallExecute(c, f)
    \/ \E c \in CallerCtxs, p \in Pools, f \in Faults : CallStoreMethod(c, p, f)
    \/ \E c \in ExecCtxs \cup DoneCtxs, f \in Faults : CallQuery(c, f)
    \/ \E c \in ExecCtxs, x \in SelectFaults :
           CallSelectToMapAny(c, x[1], x[2])
    \/ \E c \in ExecCtxs, x \in SelectFaults :
           CallSelectToMapString(c, x[1], x[2])
    \/ \E q \in Handles : CallDatabaseType(q)
    \/ \E name \in DriverIdentifiers : CallDialectOf(name)
    \/ Return

Spec ==
    Init /\ [][Next]_vars

(***************************************************************************)
(* Properties of the context wrapper, checked under SpecCtx.               *)
(***************************************************************************)
OrOps ==
    {"NewQueryableContextOr", "ContextOr"}

WrapOps ==
    {"NewQueryableContext", "Context"}

\* The handle of the nearest handle-bearing context a context descends from,
\* or "unbound" when there is none.
RECURSIVE UpstreamHandle(_)
UpstreamHandle(c) ==
    IF Len(c) = 0
    THEN "unbound"
    ELSE IF IsQueryableContext(c)
    THEN Queryable(c)
    ELSE UpstreamHandle(Parent(c))

\* C1: NewQueryableContextOr / ContextOr applied to a context that is already
\* a QueryableContext bound to h1 returns that very context: the result
\* equals the argument, its Queryable() is h1, and it is not the handle h2
\* that was passed whenever h2 differs from h1.
C1_OrReturnsExisting ==
    (last.op \in OrOps /\ IsQueryableContext(last.arg)) =>
        /\ ctx = last.arg
        /\ Queryable(ctx) = Queryable(last.arg)
        /\ (last.h # Queryable(last.arg) => Queryable(ctx) # last.h)

C1_Witness ==
    /\ last.op \in OrOps
    /\ IsQueryableContext(last.arg)
    /\ Queryable(last.arg) = "P1"
    /\ last.h = "P2"
    /\ Queryable(ctx) = "P1"

\* C2: NewQueryableContextOr / ContextOr applied to a context that is not a
\* QueryableContext returns a QueryableContext around that context whose
\* Queryable() is exactly the handle passed.
C2_OrBindsGivenHandle ==
    (last.op \in OrOps /\ ~IsQueryableContext(last.arg)) =>
        /\ IsQueryableContext(ctx)
        /\ Queryable(ctx) = last.h
        /\ Parent(ctx) = last.arg

C2_Witness ==
    /\ last.op \in OrOps
    /\ last.arg = Background
    /\ last.h = "P1"
    /\ IsQueryableContext(ctx)
    /\ Queryable(ctx) = "P1"

\* C3: NewQueryableContext / Context always returns a new QueryableContext
\* around its argument whose Queryable() is the handle passed, whatever
\* binding the argument carried.
C3_WrapAlwaysBinds ==
    last.op \in WrapOps =>
        /\ IsQueryableContext(ctx)
        /\ Queryable(ctx) = last.h
        /\ Parent(ctx) = last.arg

C3_Witness ==
    /\ last.op \in WrapOps
    /\ IsQueryableContext(last.arg)
    /\ Queryable(last.arg) = "T1"
    /\ last.h = "P2"
    /\ Queryable(ctx) = "P2"

\* C4: when ContextOr is applied to a child derived (WithCancel,
\* WithDeadline, WithValue) from a handle-bearing context, the result
\* carries the upstream handle and not the handle passed.
C4_UpstreamHandleSurvives ==
    (/\ last.op \in OrOps
     /\ ~IsQueryableContext(last.arg)
     /\ UpstreamHandle(last.arg) \notin {"unbound", Nil}) =>
        Queryable(ctx) = UpstreamHandle(last.arg)

\* C9: for a context whose handle is a pool, a connection or a transaction
\* exactly one of IsDB, IsConn, IsTx is true; for a context whose handle is
\* nil all three are false.
WellFormed(h) ==
    h \in Pools \cup Conns \cup Txs

C9_ExactlyOneVariant ==
    last.op = "Classify" =>
        /\ WellFormed(last.h) =>
               Cardinality({i \in 1..3 : last.out[i]}) = 1
        /\ last.h = Nil => last.out = <<FALSE, FALSE, FALSE>>

C9_Witness ==
    /\ last.op = "Classify"
    /\ last.h \in Txs
    /\ last.out = <<FALSE, FALSE, TRUE>>

(***************************************************************************)
(* Properties of the execution helpers and of dialect resolution, checked  *)
(* under Spec.                                                             *)
(***************************************************************************)
HelperOps ==
    {"Execute", "Query", "SelectToMapAny", "SelectToMapString"}

\* The errors that come from the database, its driver or its cursors.
DriverErrs ==
    (Faults \ {NoErr})
        \cup {ErrTxDone, ErrColumns, ErrScan, ErrIter, Panic,
              ErrCanceled, ErrDeadlineExceeded}

C5_Step ==
    /\ (Idle /\ last'.op = "StoreMethod") =>
        LET c == last'.arg
            o == last'.out
        IN /\ (/\ IsQueryableContext(c)
               /\ Queryable(c) \in Txs
               /\ txState[Queryable(c)] = "open") =>
                  /\ Len(o.prim) = 1
                  /\ o.prim[1].fn = "ExecContext"
                  /\ o.prim[1].h = Queryable(c)
                  /\ committed' = committed
                  /\ o.err = NoErr =>
                         /\ nextId \in pending'[Queryable(c)]
                         /\ \A p \in Pools : nextId \notin committed'[p]
           /\ UpstreamHandle(c) = "unbound" =>
                  /\ Len(o.prim) = 1
                  /\ o.prim[1].fn = "ExecContext"
                  /\ o.prim[1].h = last'.h
                  /\ pending' = pending
                  /\ o.err = NoErr => nextId \in committed'[last'.h]
    /\ \A t \in Txs :
           (txState[t] = "open" /\ txState'[t] = "committed") =>
               sent[t] \subseteq committed'[txPool[t]]

\* C5: a store method that calls ContextOr(ctx, pool) and then Execute runs
\* its statement on the transaction when ctx is a context bound to an open
\* transaction (one ExecContext on the transaction, the row pending in the
\* transaction and in no pool, the pool argument unused, and every such row
\* in the transaction's database once it commits); when ctx carries no
\* handle the statement runs on the pool given.
C5_StoreMethodJoinsTransaction ==
    [][C5_Step]_vars

C5_Witness ==
    /\ last.op = "StoreMethod"
    /\ IsQueryableContext(last.arg)
    /\ Queryable(last.arg) = "T1"
    /\ txPool["T1"] = "P1"
    /\ last.h = "P2"
    /\ last.out.err = NoErr
    /\ txState["T1"] = "open"
    /\ Cardinality(pending["T1"]) = 2
    /\ sent["T1"] = pending["T1"]

\* C6: the rows written with Execute on a context bound to transaction t are
\* seen by no pool, connection or other transaction once t is rolled back,
\* and are all in t's database once t is committed.
C6_AtomicWithTransaction ==
    \A t \in Txs :
        /\ txState[t] = "rolledback" =>
               \A h \in (Pools \cup Conns \cup Txs) \ {t} :
                   sent[t] \cap Visible(h) = {}
        /\ txState[t] = "committed" =>
               /\ sent[t] \subseteq committed[txPool[t]]
               /\ sent[t] \subseteq Visible(txPool[t])

C6_Witness ==
    /\ txState["T1"] = "rolledback"
    /\ sent["T1"] # {}
    /\ txState["T2"] = "committed"
    /\ txPool["T2"] = txPool["T1"]
    /\ sent["T2"] # {}
    /\ sent["T2"] \subseteq committed[txPool["T2"]]

C7_Step ==
    (/\ Idle
     /\ last'.op \in HelperOps
     /\ Queryable(last'.arg) = Nil) =>
        /\ last'.out.err = ErrNilQuerier
        /\ last'.out.prim = <<>>
        /\ UNCHANGED dbVars

\* C7: Execute, Query, SelectToMapAny and SelectToMapString called with a
\* context whose handle is nil return the error "querier (db/tx/conn) is
\* nil", invoke no execution primitive and leave the databases as they were.
C7_NilHandleRejected ==
    [][C7_Step]_vars

C7_Witness ==
    /\ last.op = "Query"
    /\ Queryable(last.arg) = Nil
    /\ last.out.err = ErrNilQuerier
    /\ last.out.prim = <<>>
    /\ nextId > 1

\* C8: whenever the execution primitive returns an error the helper returns
\* that same error, and an error of a helper that comes from neither the
\* database nor its cursor is the nil-handle error of a call with a nil
\* handle.
C8_ErrorsPassedUnchanged ==
    last.op \in HelperOps =>
        /\ \A i \in 1..Len(last.out.prim) :
               last.out.prim[i].err # NoErr =>
                   last.out.err = last.out.prim[i].err
        /\ last.out.err \notin ({NoErr} \cup DriverErrs) =>
               /\ last.out.err = ErrNilQuerier
               /\ Queryable(last.arg) = Nil

C8_Witness ==
    /\ last.op = "Execute"
    /\ Queryable(last.arg) \in Txs
    /\ Len(last.out.prim) = 1
    /\ last.out.prim[1].err = "bad SQL"
    /\ last.out.err = "bad SQL"

\* C10: DatabaseType of a pool is the tag of the dialect the pool was opened
\* against, and DatabaseType of a transaction or connection of that pool is
\* the same tag.
C10_DialectOfPoolAndDerived ==
    last.op = "DatabaseType" =>
        /\ last.h \in Pools => last.out = OpenedAgainst(last.h)
        /\ (last.h \in Txs /\ txPool[last.h] \in Pools)
               => last.out = OpenedAgainst(txPool[last.h])
        /\ (last.h \in Conns /\ connPool[last.h] \in Pools)
               => last.out = OpenedAgainst(connPool[last.h])

C10_Witness ==
    /\ last.op = "DatabaseType"
    /\ last.h \in Txs
    /\ txPool[last.h] = "P2"
    /\ last.out = DATABASE_TYPE_MYSQL

\* The dialect tags.
DialectTags ==
    {DATABASE_TYPE_SQLITE, DATABASE_TYPE_MYSQL, DATABASE_TYPE_POSTGRES,
     DATABASE_TYPE_UNKNOWN}

\* A handle from which no pool can be recovered.
Malformed(h) ==
    \/ h \in {Nil} \cup TypedNils \cup Foreign
    \/ h \in Txs /\ txPool[h] \notin Pools
    \/ h \in Conns /\ connPool[h] \notin Pools

HasWord(name, word) ==
    \E i \in 0..(Len(name) - Len(word)) :
        \A j \in 1..Len(word) : ToLower(name[i + j]) = word[j]

WordPostgres ==
    <<"p", "o", "s", "t", "g", "r", "e", "s">>

WordSqlite ==
    <<"s", "q", "l", "i", "t", "e">>

WordMysql ==
    <<"m", "y", "s", "q", "l">>

\* C12: a driver identifier containing "postgres" maps to postgres, one
\* containing "sqlite" to sqlite, one containing "mysql" to mysql, whatever
\* the case of its letters, and one containing none of them to "unknown".
C12_DriverSubstringMatch ==
    last.op = "DialectOf" =>
        LET pg == HasWord(last.arg, WordPostgres)
            sl == HasWord(last.arg, WordSqlite)
            my == HasWord(last.arg, WordMysql)
        IN /\ (pg /\ ~sl /\ ~my) => last.out = DATABASE_TYPE_POSTGRES
           /\ (sl /\ ~pg /\ ~my) => last.out = DATABASE_TYPE_SQLITE
           /\ (my /\ ~pg /\ ~sl) => last.out = DATABASE_TYPE_MYSQL
           /\ (~pg /\ ~sl /\ ~my) => last.out = DATABASE_TYPE_UNKNOWN

C12_Witness ==
    /\ last.op = "DialectOf"
    /\ last.arg = <<"M", "Y", "S", "Q", "L">>
    /\ last.out = DATABASE_TYPE_MYSQL
\* C13: NewQueryableContextOr / ContextOr applied to its own result with the
\* same handle returns that result, and applied to any QueryableContext with
\* any handle leaves the context and the handle it holds as they were.
C13_Step ==
    /\ (last.op \in OrOps /\ last'.op \in OrOps /\ last'.h = last.h)
           => ctx' = ctx
    /\ (IsQueryableContext(ctx) /\ last'.op \in OrOps /\ last' # last)
           => /\ IsQueryableContext(ctx')
              /\ Queryable(ctx') = Queryable(ctx)

C13_OrIdempotent ==
    [][C13_Step]_vars

C13_Witness ==
    /\ last.op \in OrOps
    /\ last.h = "T1"
    /\ last.arg = <<QLayer("T1")>>
    /\ ctx = last.arg

\* A context no layer of which is a QueryableContext.
Plain(c) ==
    \A i \in 1..Len(c) : c[i].kind # "queryable"

\* C14: IsQueryableContext is true of every context returned by Context,
\* NewQueryableContext, ContextOr or NewQueryableContextOr, the nil handle
\* included, and false of every plain context.
C14_IsQueryableContextOfResults ==
    /\ last.op \in OrOps \cup WrapOps => IsQueryableContext(ctx)
    /\ Plain(ctx) => ~IsQueryableContext(ctx)

C14_Witness ==
    /\ last.op \in OrOps
    /\ last.h = Nil
    /\ Plain(last.arg)
    /\ IsQueryableContext(ctx)

\* C15: Context(parent, nil) returns the QueryableContext
\* {Context: parent, queryable: nil}; its Queryable() is the nil handle.
C15_ContextWithNilHandle ==
    (last.op = "Context" /\ last.h = Nil) =>
        /\ ctx = Append(last.arg, QLayer(Nil))
        /\ Parent(ctx) = last.arg
        /\ Queryable(ctx) = Nil

C15_Witness ==
    /\ last.op = "Context"
    /\ last.h = Nil
    /\ last.arg = <<DLayer("WithCancel")>>
    /\ Queryable(ctx) = Nil

\* C16 as stated: NewQueryableContextOr applied to a QueryableContext that
\* holds the nil handle, with a non-nil handle h, returns a context whose
\* Queryable() is h.
C16_NilParentGetsFilled ==
    (/\ last.op \in OrOps
     /\ IsQueryableContext(last.arg)
     /\ Queryable(last.arg) = Nil
     /\ last.h # Nil) =>
        Queryable(ctx) = last.h

\* C16: NewQueryableContextOr applied to a QueryableContext that holds the
\* nil handle, with a non-nil handle h, returns that context unchanged: its
\* Queryable() is still the nil handle.  NewQueryableContext applied to the
\* same arguments binds h.
C16_NilParentReturnedAsIs ==
    (/\ IsQueryableContext(last.arg)
     /\ Queryable(last.arg) = Nil
     /\ last.h # Nil) =>
        /\ last.op \in OrOps => (ctx = last.arg /\ Queryable(ctx) = Nil)
        /\ last.op \in WrapOps => (Queryable(ctx) = last.h /\ ctx # last.arg)

C16_Witness ==
    /\ last.op = "NewQueryableContextOr"
    /\ last.arg = <<QLayer(Nil)>>
    /\ last.h = "P1"
    /\ Queryable(ctx) = Nil

\* C19: Context returns what NewQueryableContext returns and ContextOr what
\* NewQueryableContextOr returns, for every parent context and handle.
C19_AliasesEqualCore ==
    /\ last.op = "Context" => ctx = NewQueryableContext(last.arg, last.h)
    /\ last.op = "ContextOr" => ctx = NewQueryableContextOr(last.arg, last.h)

C19_Witness ==
    /\ last.op = "ContextOr"
    /\ last.arg = <<QLayer("P1"), DLayer("WithValue")>>
    /\ last.h = "T1"
    /\ ctx = NewQueryableContextOr(last.arg, last.h)
    /\ Len(ctx) = 3
\* The operations of the core that are given a handle or a context bound to
\* one.
CoreOps ==
    HelperOps \cup {"StoreMethod", "DatabaseType", "DialectOf"}

C17_Step ==
    (Idle /\ last'.op \in CoreOps) =>
        /\ txState' = txState
        /\ txPool' = txPool
        /\ connPool' = connPool
        /\ \A t \in Txs : pending[t] \subseteq pending'[t]

\* C17: no call of ContextOr, Execute, Query, SelectToMapAny,
\* SelectToMapString or DatabaseType commits, rolls back or releases a
\* handle: every transaction is in the state it was in before the call, with
\* its pending rows, and every transaction and connection still belongs to
\* its pool; an open transaction is still open after Execute returned an
\* error.
C17_CoreNeverCloses ==
    [][C17_Step]_vars

C17_Witness ==
    /\ last.op = "Execute"
    /\ Queryable(last.arg) = "T1"
    /\ last.out.err = "bad SQL"
    /\ txState["T1"] = "open"
    /\ pending["T1"] # {}

\* What a helper returns for a context, a database fault and a cursor fault.
HelperOutcome(op, c, fault, cf) ==
    CASE op = "Execute" -> Execute(c, fault)
      [] op = "Query" -> Query(c, fault)
      [] op = "SelectToMapAny" -> SelectToMapAny(c, fault, cf)
      [] OTHER -> SelectToMapString(c, fault, cf)

\* C18: a helper given a regular context that was not wrapped with a handle
\* has the outcome it has for ContextOr(ctx, db) of that context and some
\* pool db: the same error and the same call of the execution primitive.
C18_PlainContextEquivalent ==
    (/\ last.op \in HelperOps
     /\ Queryable(last.arg) = Nil
     /\ Plain(Parent(last.arg))) =>
        \E db \in Pools, x \in SelectFaults :
            LET o == HelperOutcome(last.op, ContextOr(Parent(last.arg), db),
                                   x[1], x[2])
            IN /\ o.err = last.out.err
               /\ Len(o.prim) = Len(last.out.prim)

\* C20: a context returned by Context / ContextOr has the error, the
\* deadline and the values of its parent, also when the parent is already
\* cancelled or expired; Execute and Query called with a done context
\* bound to a pool, connection or transaction still call the execution
\* primitive once, and what they return is the context's error as the
\* primitive returned it.
C20_CancellationInherited ==
    /\ (last.op \in {"Execute", "Query"}
            /\ Queryable(last.arg) \in Pools \cup Conns \cup Txs) =>
           /\ Err(last.arg) = Err(Parent(last.arg))
           /\ Deadline(last.arg) = Deadline(Parent(last.arg))
           /\ Value(last.arg) = Value(Parent(last.arg))
           /\ Len(last.out.prim) = 1
           /\ Err(last.arg) # NoErr =>
                  /\ last.out.prim[1].err = Err(last.arg)
                  /\ last.out.err = Err(last.arg)
    /\ last.op = "StoreMethod" =>
           LET q == ContextOr(last.arg, last.h)
           IN /\ IsQueryableContext(q)
              /\ Err(q) = Err(last.arg)
              /\ Deadline(q) = Deadline(last.arg)
              /\ Value(q) = Value(last.arg)
              /\ Queryable(q) \in Pools \cup Conns \cup Txs =>
                     /\ Len(last.out.prim) = 1
                     /\ Err(last.arg) # NoErr =>
                            last.out.err = Err(last.arg)

C20_Witness ==
    /\ last.op = "Execute"
    /\ last.arg = Context(Derive(Background, "Expired"), "T1")
    /\ txState["T1"] = "open"
    /\ Len(last.out.prim) = 1
    /\ last.out.err = ErrDeadlineExceeded
(***************************************************************************)
(* Results, cursors and retries of the helpers; finished transactions;     *)
(* nil pointers as handles.                                                *)
(***************************************************************************)
SelectOps ==
    {"SelectToMapAny", "SelectToMapString"}

\* The rows the cursor of the last select yields, in cursor order.
CursorRows ==
    Ascending(Visible(Queryable(last.arg)))

\* C21: SelectToMapAny and SelectToMapString whose query succeeds and yields
\* no row, with no fault of the cursor, return no error and an empty slice
\* that is not the nil slice.
C21_NoRowsEmptySlice ==
    (/\ last.op \in SelectOps
     /\ Len(last.out.prim) = 1
     /\ last.out.prim[1].err = NoErr
     /\ last.cf = "none"
     /\ CursorRows = <<>>) =>
        /\ last.out.err = NoErr
        /\ last.out.list = <<>>
        /\ ~last.out.nilSlice

C21_Witness ==
    /\ last.op = "SelectToMapAny"
    /\ Queryable(last.arg) = "T1"
    /\ txState["T1"] = "open"
    /\ committed["P1"] # {}
    /\ txPool["T1"] = "P2"
    /\ last.out.err = NoErr
    /\ last.out.list = <<>>

C22_Step ==
    /\ (Idle /\ last'.op \in {"Execute", "Query"}) =>
           /\ Len(last'.out.prim) =
                  IF Queryable(last'.arg) = Nil THEN 0 ELSE 1
           /\ nextId' <= nextId + 1
    /\ ~Idle => UNCHANGED dbVars

\* C22: a call of Execute or Query invokes the execution primitive once
\* when the handle is not nil and not at all when it is nil, whether the
\* primitive fails or not; at most one statement is applied by a call and
\* nothing is applied after the call has returned.
C22_NoRetries ==
    [][C22_Step]_vars

C22_Witness ==
    /\ last.op = "Execute"
    /\ Queryable(last.arg) = "P1"
    /\ Len(last.out.prim) = 1
    /\ last.out.prim[1].err = "connection lost"
    /\ last.out.err = "connection lost"

C23_Step ==
    (/\ Idle
     /\ last'.op \in {"Execute", "StoreMethod"}
     /\ IsQueryableContext(last'.arg)
     /\ Err(last'.arg) = NoErr
     /\ Queryable(last'.arg) \in Txs
     /\ txState[Queryable(last'.arg)] \in {"committed", "rolledback"}) =>
        /\ ContextOr(last'.arg, last'.h) = last'.arg
        /\ last'.out.prim =
               <<Prim("ExecContext", Queryable(last'.arg), ErrTxDone)>>
        /\ last'.out.err = ErrTxDone
        /\ committed' = committed
        /\ pending' = pending

\* C23: for a context bound to a transaction that was committed or rolled
\* back, ContextOr with a pool returns the context itself, and Execute on it
\* calls ExecContext on the finished transaction, returns its error and
\* writes nothing to any pool or transaction.
C23_FinishedTransactionStaysBound ==
    [][C23_Step]_vars

C23_Witness ==
    /\ last.op = "StoreMethod"
    /\ last.arg = Context(Background, "T1")
    /\ txState["T1"] = "rolledback"
    /\ last.h = txPool["T1"]
    /\ last.out.err = ErrTxDone
    /\ committed[txPool["T1"]] = {}

\* C24: no operation changes an existing context: after every step the
\* context and all its ancestors are what they were, with the handles they
\* had; NewQueryableContext on a parent bound to h1 returns a new context
\* with the handle passed whose parent is still bound to h1.
C24_Step ==
    /\ Len(ctx') >= Len(ctx)
    /\ SubSeq(ctx', 1, Len(ctx)) = ctx
    /\ (last'.op \in WrapOps /\ last' # last /\ IsQueryableContext(ctx)) =>
           /\ Len(ctx') = Len(ctx) + 1
           /\ Queryable(ctx') = last'.h
           /\ Queryable(Parent(ctx')) = Queryable(ctx)

C25_CursorClosed ==
    /\ last.op \in SelectOps => ~last.out.open
    /\ (last.op = "Query" /\ last.out.err = NoErr) => last.out.open

C25_Witness ==
    /\ last.op = "SelectToMapAny"
    /\ last.cf = "scan"
    /\ last.out.err = ErrScan
    /\ ~last.out.open

\* C26: a successful SelectToMapAny returns one map per row the cursor
\* yields, in cursor order, with the column names as keys and the column
\* values as values, NULL staying NULL; a successful SelectToMapString
\* returns as many maps in the same order with the same keys.
C26_OneMapPerRow ==
    (last.op \in SelectOps /\ last.out.err = NoErr) =>
        /\ Len(last.out.list) = Len(CursorRows)
        /\ \A i \in 1..Len(CursorRows) :
               /\ DOMAIN last.out.list[i] = {"id", "name"}
               /\ last.op = "SelectToMapAny" =>
                      last.out.list[i] = RowMap(CursorRows[i])
               /\ last.op = "SelectToMapString" =>
                      last.out.list[i].id = Digits[CursorRows[i]]

C26_Witness ==
    /\ last.op = "SelectToMapAny"
    /\ last.out.err = NoErr
    /\ Len(last.out.list) = 2
    /\ last.out.list[1].id < last.out.list[2].id
    /\ last.out.list[2].name = "NULL"

\* C27: whenever SelectToMapAny or SelectToMapString returns an error the
\* slice returned is empty and not nil, also when rows had been read before
\* the error.
C27_NoPartialResults ==
    (last.op \in SelectOps /\ last.out.err # NoErr) =>
        /\ last.out.list = <<>>
        /\ ~last.out.nilSlice

C27_Witness ==
    /\ last.op = "SelectToMapString"
    /\ last.cf = "scan"
    /\ Len(CursorRows) = 2
    /\ last.out.err = ErrScan
    /\ last.out.list = <<>>

\* C28: a helper called with a context whose handle is a nil pointer of
\* pool, connection or transaction type returns the nil-handle error
\* without calling the execution primitive, and IsDB, IsConn and IsTx are
\* false for that context.
C28_NilPointerIsNilHandle ==
    (last.op \in HelperOps /\ Queryable(last.arg) \in TypedNils) =>
        /\ last.out.err = ErrNilQuerier
        /\ last.out.prim = <<>>
        /\ ~IsDB(last.arg)
        /\ ~IsConn(last.arg)
        /\ ~IsTx(last.arg)

====
